---------------------------- MODULE Spec2Model ----------------------------
(***************************************************************************)
(* Import pipeline of media-feed: the ImportJob life cycle                 *)
(* (backend/app/services/import_service.py), the per-row processing of a   *)
(* Netflix viewing history (backend/app/services/netflix_parser.py) and    *)
(* the storage rules of the alembic chain (backend/alembic/versions).      *)
(*                                                                         *)
(* Strings are sequences of tokens: a token is a word, a number, ":" or    *)
(* ".". White space is what separates tokens, so str.strip() is the        *)
(* identity on a token sequence. The storage schema is the one the         *)
(* migrations 001..008 build (user_media carries season_number,            *)
(* episode_number, episode_title and the unique index of revision 006).    *)
(***************************************************************************)
EXTENDS Integers, Sequences, FiniteSets, TLC

\* SQL NULL / Python None for integer columns
NULL == -1

\* Python None for a string (a token sequence no title can be)
None == <<"<None>">>

(***************************************************************************)
(* Token vocabulary and str.lower()                                        *)
(***************************************************************************)
NumVal ==
  ("1" :> 1) @@ ("2" :> 2) @@ ("3" :> 3) @@ ("4" :> 4) @@ ("5" :> 5) @@
  ("7" :> 7)

IsNum(t) == t \in DOMAIN NumVal

LowerTable ==
  ("Arcane" :> "arcane") @@ ("ARCANE" :> "arcane") @@
  ("Inception" :> "inception") @@ ("INCEPTION" :> "inception") @@ ("The" :> "the") @@
  ("Office" :> "office") @@ ("Ozark" :> "ozark") @@
  ("Staffel" :> "staffel") @@ ("Season" :> "season") @@
  ("Episode" :> "episode") @@ ("Part" :> "part") @@
  ("Limited" :> "limited") @@ ("Series" :> "series") @@
  ("Finale" :> "finale")

LowerWord(t) == IF t \in DOMAIN LowerTable THEN LowerTable[t] ELSE t

\* str.lower() on a token sequence
lower(s) == [i \in 1..Len(s) |-> LowerWord(s[i])]

\* str.split(sep)
RECURSIVE split(_, _)
split(s, sep) ==
  IF \E i \in 1..Len(s) : s[i] = sep
  THEN LET i == CHOOSE k \in 1..Len(s) :
                   s[k] = sep /\ \A m \in 1..(k - 1) : s[m] # sep
       IN  <<SubSeq(s, 1, i - 1)>> \o split(SubSeq(s, i + 1, Len(s)), sep)
  ELSE <<s>>

\* sep.join(parts)
RECURSIVE join(_, _)
join(parts, sep) ==
  IF Len(parts) = 0 THEN <<>>
  ELSE IF Len(parts) = 1 THEN parts[1]
  ELSE parts[1] \o <<sep>> \o join(Tail(parts), sep)

\* positions where re.search(r'(?:kw1|kw2)\s*(\d+)', s, re.IGNORECASE) matches
KeywordNumberAt(s, keywords) ==
  {i \in 1..(Len(s) - 1) : LowerWord(s[i]) \in keywords /\ IsNum(s[i + 1])}

Min(S) == CHOOSE x \in S : \A y \in S : x <= y

Max(S) == CHOOSE x \in S : \A y \in S : x >= y

\* str.strip(); the token " " is a run of blanks next to a colon or at an
\* end of the string (blanks between two words are not written)
strip(s) ==
  LET ink == {i \in 1..Len(s) : s[i] # " "}
  IN  IF ink = {} THEN <<>> ELSE SubSeq(s, Min(ink), Max(ink))

(***************************************************************************)
(* NetflixCSVParser._extract_season_number                                 *)
(***************************************************************************)
extract_season_number(season_str) ==
  LET kw  == KeywordNumberAt(season_str, {"staffel", "season"})
      num == {i \in 1..Len(season_str) : IsNum(season_str[i])}
  IN  IF kw # {} THEN NumVal[season_str[Min(kw) + 1]]
      ELSE IF num # {} THEN NumVal[season_str[Min(num)]]
      ELSE NULL

(***************************************************************************)
(* NetflixCSVParser._extract_episode_number                                *)
(***************************************************************************)
extract_episode_number(episode_str) ==
  LET kw == KeywordNumberAt(episode_str, {"episode", "kapitel", "part", "teil"})
  IN  IF kw # {} THEN NumVal[episode_str[Min(kw) + 1]]
      ELSE IF Len(episode_str) >= 2 /\ IsNum(episode_str[1])
                /\ episode_str[2] \in {".", ":"}
           THEN NumVal[episode_str[1]]
      ELSE NULL

\* 'season' in s.lower() or 'limited series' in s.lower()
HasSeasonKeyword(s) ==
  \/ \E i \in 1..Len(s) : LowerWord(s[i]) = "season"
  \/ \E i \in 1..(Len(s) - 1) :
        LowerWord(s[i]) = "limited" /\ LowerWord(s[i + 1]) = "series"

(***************************************************************************)
(* NetflixCSVParser._parse_netflix_title                                   *)
(***************************************************************************)
\* a decomposition that keeps the blanks around the colons
M_parse_netflix_title_NoStrip(title) ==
  LET parts == split(title, ":")
  IN  IF Len(parts) >= 3
      THEN LET season_info  == parts[2]
               episode_info == join(SubSeq(parts, 3, Len(parts)), ":")
           IN  [main_title     |-> parts[1],
                type           |-> "tv_series",
                season_number  |-> extract_season_number(season_info),
                episode_number |-> extract_episode_number(episode_info),
                episode_title  |-> episode_info,
                metadata       |-> [season |-> season_info,
                                    episode |-> episode_info,
                                    full_title |-> title]]
      ELSE IF Len(parts) = 2
      THEN IF HasSeasonKeyword(parts[2])
           THEN [main_title     |-> parts[1],
                 type           |-> "tv_series",
                 season_number  |-> NULL,
                 episode_number |-> NULL,
                 episode_title  |-> None,
                 metadata       |-> [season |-> parts[2],
                                     full_title |-> title]]
           ELSE [main_title     |-> parts[1],
                 type           |-> "movie",
                 season_number  |-> NULL,
                 episode_number |-> NULL,
                 episode_title  |-> None,
                 metadata       |-> [subtitle |-> parts[2],
                                     full_title |-> title]]
      ELSE [main_title     |-> title,
            type           |-> "movie",
            season_number  |-> NULL,
            episode_number |-> NULL,
            episode_title  |-> None,
            metadata       |-> [full_title |-> title]]

parse_netflix_title(title) ==
  LET parts == split(title, ":")
  IN  IF Len(parts) >= 3
      THEN LET season_info  == strip(parts[2])
               episode_info == strip(join(SubSeq(parts, 3, Len(parts)), ":"))
           IN  [main_title     |-> strip(parts[1]),
                type           |-> "tv_series",
                season_number  |-> extract_season_number(season_info),
                episode_number |-> extract_episode_number(episode_info),
                episode_title  |-> episode_info,
                metadata       |-> [season |-> season_info,
                                    episode |-> episode_info,
                                    full_title |-> title]]
      ELSE IF Len(parts) = 2
      THEN IF HasSeasonKeyword(strip(parts[2]))
           THEN [main_title     |-> strip(parts[1]),
                 type           |-> "tv_series",
                 season_number  |-> NULL,
                 episode_number |-> NULL,
                 episode_title  |-> None,
                 metadata       |-> [season |-> strip(parts[2]),
                                     full_title |-> title]]
           ELSE [main_title     |-> strip(parts[1]),
                 type           |-> "movie",
                 season_number  |-> NULL,
                 episode_number |-> NULL,
                 episode_title  |-> None,
                 metadata       |-> [subtitle |-> strip(parts[2]),
                                     full_title |-> title]]
      ELSE [main_title     |-> strip(title),
            type           |-> "movie",
            season_number  |-> NULL,
            episode_number |-> NULL,
            episode_title  |-> None,
            metadata       |-> [full_title |-> title]]

(***************************************************************************)
(* NetflixCSVParser._parse_date.  A date string is its separator and its   *)
(* fields; a field is its value v and its number of digits n (n = 0: the   *)
(* field is not a number).  The empty string has no separator.             *)
(***************************************************************************)
EmptyDate == [sep |-> "", f |-> <<>>]

NoDate == [y |-> NULL, m |-> NULL, d |-> NULL]

IsLeap(y) == (y % 4 = 0 /\ y % 100 # 0) \/ y % 400 = 0

DaysIn(m, y) ==
  IF m = 2 THEN (IF IsLeap(y) THEN 29 ELSE 28)
  ELSE IF m \in {4, 6, 9, 11} THEN 30 ELSE 31

\* the formats with day first tried before month first
M_formats_DayFirst ==
  << [sep |-> "/", order |-> "dmy", ylen |-> 2],
     [sep |-> "/", order |-> "mdy", ylen |-> 2],
     [sep |-> "/", order |-> "dmy", ylen |-> 4],
     [sep |-> "/", order |-> "mdy", ylen |-> 4],
     [sep |-> "-", order |-> "ymd", ylen |-> 4],
     [sep |-> "-", order |-> "dmy", ylen |-> 4],
     [sep |-> "-", order |-> "mdy", ylen |-> 4],
     [sep |-> "-", order |-> "dmy", ylen |-> 2],
     [sep |-> "-", order |-> "mdy", ylen |-> 2] >>

\* the order the formats are tried in
formats ==
  << [sep |-> "/", order |-> "mdy", ylen |-> 2],
     [sep |-> "/", order |-> "dmy", ylen |-> 2],
     [sep |-> "/", order |-> "mdy", ylen |-> 4],
     [sep |-> "/", order |-> "dmy", ylen |-> 4],
     [sep |-> "-", order |-> "ymd", ylen |-> 4],
     [sep |-> "-", order |-> "mdy", ylen |-> 4],
     [sep |-> "-", order |-> "dmy", ylen |-> 4],
     [sep |-> "-", order |-> "mdy", ylen |-> 2],
     [sep |-> "-", order |-> "dmy", ylen |-> 2] >>

\* the fields of date_str in the roles fmt gives them
FieldsOf(date_str, fmt) ==
  IF fmt.order = "mdy"
  THEN [m |-> date_str.f[1], d |-> date_str.f[2], y |-> date_str.f[3]]
  ELSE IF fmt.order = "dmy"
  THEN [m |-> date_str.f[2], d |-> date_str.f[1], y |-> date_str.f[3]]
  ELSE [m |-> date_str.f[2], d |-> date_str.f[3], y |-> date_str.f[1]]

\* %y: 69..99 are 19xx, 0..68 are 20xx
YearOf(field, ylen) ==
  IF ylen = 4 THEN field.v
  ELSE IF field.v >= 69 THEN 1900 + field.v ELSE 2000 + field.v

\* datetime.strptime(date_str, fmt) succeeds
strptime_ok(date_str, fmt) ==
  /\ date_str.sep = fmt.sep
  /\ Len(date_str.f) = 3
  /\ LET r == FieldsOf(date_str, fmt)
     IN  /\ r.y.n = fmt.ylen
         /\ r.m.n \in {1, 2} /\ r.m.v \in 1..12
         /\ r.d.n \in {1, 2} /\ r.d.v >= 1
         /\ r.d.v <= DaysIn(r.m.v, YearOf(r.y, fmt.ylen))

strptime(date_str, fmt) ==
  LET r == FieldsOf(date_str, fmt)
  IN  [y |-> YearOf(r.y, fmt.ylen), m |-> r.m.v, d |-> r.d.v]

\* index of the first format that parses date_str, 0 when none does
FirstFormat(date_str) ==
  LET ok == {i \in 1..Len(formats) : strptime_ok(date_str, formats[i])}
  IN  IF ok = {} THEN 0 ELSE Min(ok)

\* a date parser that gives up silently
M_parse_date_raises_Never(date_str) == FALSE

parse_date_raises(date_str) == FirstFormat(date_str) = 0

parse_date(date_str) == strptime(date_str, formats[FirstFormat(date_str)])

(***************************************************************************)
(* Bounds of the model                                                     *)
(***************************************************************************)
MaxJobs == 2
MaxRuns == 2
MaxRows == 3
MaxDrawn == 3
LongRows == 120
GoodEvery == 7
MaxManual == 2

Users == {"u1", "u2"}
Workers == {"w1", "w2"}

\* ImportSource
Sources == {"netflix_csv", "api"}

\* ImportStatus
Terminal == {"completed", "failed", "partial"}

\* a progress snapshot is persisted every ProgressEvery rows
ProgressEvery == 10

\* the error log keeps the first ErrorLogCap entries
ErrorLogCap == 100

(***************************************************************************)
(* Rows the uploaded files are made of                                     *)
(***************************************************************************)
Field(v, n) == [v |-> v, n |-> n]

DateUS  == [sep |-> "/", f |-> <<Field(6, 1), Field(26, 2), Field(25, 2)>>]
DateISO == [sep |-> "-", f |-> <<Field(2024, 4), Field(1, 2), Field(15, 2)>>]
DateBad == [sep |-> "-", f |-> <<Field(0, 0), Field(0, 0), Field(0, 0)>>]

Row(title, date) == [Title |-> title, Date |-> date]

RowPool ==
  { Row(<<"Arcane", ":", "Staffel", "2", ":", "Episode", "3">>, DateUS),
    Row(<<"Arcane", ":", "Staffel", "2", ":", "Episode", "4">>, DateUS),
    Row(<<"ARCANE", ":", "Staffel", "2", ":", "Episode", "3", ":", "Finale">>,
        EmptyDate),
    Row(<<"Inception">>, DateISO),
    Row(<<>>, DateUS) }

(***************************************************************************)
(* State                                                                   *)
(***************************************************************************)
VARIABLES
  jobs,        \* table import_jobs: job id -> row (ids are 1..Len(jobs))
  media,       \* table media, committed rows
  user_media,  \* table user_media, committed rows
  worker,      \* per worker: position in process_csv_import and its locals
  runs,        \* number of process_csv_import calls made so far
  drawn,       \* number of rows read from uploaded files so far
  ret,         \* what cancel_import_job returned, when it was the last step
  limiter,     \* Redis as the rate limiter uses it, the clock, and the calls
               \* of check_rate_limit in flight and returned
  cache,       \* Redis as the cache uses it, and the calls of search_tv made
  cfg          \* the callers: users, sources, files and workers there are
               \* (lengths: rows a file may hold, budget: rows read in all,
               \* file: the rows of the file when it is a given one,
               \* orm: the columns the classes Media and UserMedia declare,
               \* those of the migrations or those of db/models.py)

vars == <<jobs, media, user_media, worker, runs, drawn, ret, cfg, limiter, cache>>

JobIds == 1..Len(jobs)

EmptyTx == [media_ins |-> {}, media_upd |-> {}, um_ins |-> {}, locked |-> FALSE]

IdleWorker ==
  [pc |-> "idle", job_id |-> 0, user_id |-> "", source |-> "",
   n |-> 0, idx |-> 0, successful |-> 0, failed |-> 0, errors |-> <<>>,
   row |-> Row(<<>>, EmptyDate), media_id |-> 0, exc |-> "", tx |-> EmptyTx]

NoCall == [op |-> "none", value |-> FALSE]

\* check_rate_limit: its callers and the keys they pass
Callers == {"c1", "c2"}

Keys == {"k1", "k2"}

\* now: the time the caller has read last, before its first call none
IdleCall == [pc |-> "idle", key |-> "", now |-> -1, current_requests |-> 0, retry_after |-> 0]

\* no sorted set in Redis, no call of check_rate_limit made
NoTraffic ==
  [clock |-> 0, zset |-> [k \in Keys |-> {}], expires |-> [k \in Keys |-> 0],
   call |-> [c \in Callers |-> IdleCall], returned |-> <<>>]

\* no key in Redis, no call of search_tv made
ColdCache == [store |-> {}, api_calls |-> 0, returned |-> <<>>]

\* the state after deployment: empty tables, idle workers
Start ==
  /\ jobs = <<>>
  /\ media = {}
  /\ user_media = {}
  /\ worker = [w \in Workers |-> IdleWorker]
  /\ runs = 0
  /\ drawn = 0
  /\ ret = NoCall
  /\ limiter = NoTraffic
  /\ cache = ColdCache

\* the life cycle of jobs: two users, both sources, one worker
Init ==
  /\ Start
  /\ cfg = [users |-> Users, sources |-> Sources, totals |-> {MaxRows},
            lengths |-> 0..MaxRows, budget |-> MaxDrawn, file |-> <<>>,
            pool |-> {Row(<<"Inception">>, DateISO),
                      Row(<<"Inception">>, DateBad)},
            workers |-> {"w1"}, orm |-> "migrations"]

\* one user's jobs of both sources, for the runs of one worker
InitRuns ==
  /\ Start
  /\ cfg = [users |-> {"u1"}, sources |-> Sources, totals |-> {MaxRows},
            lengths |-> 0..MaxRows, budget |-> MaxDrawn, file |-> <<>>,
            pool |-> {Row(<<"Inception">>, DateISO),
                      Row(<<"Inception">>, DateBad)},
            workers |-> {"w1"}, orm |-> "migrations"]

\* one user's uploads, processed by one worker
InitRows ==
  /\ Start
  /\ cfg = [users |-> {"u1"}, sources |-> {"netflix_csv"},
            totals |-> {MaxRows}, lengths |-> 0..MaxRows, budget |-> MaxDrawn, file |-> <<>>,
            pool |-> RowPool, workers |-> {"w1"}, orm |-> "migrations"]

\* a long file: every GoodEvery-th row is a film, the rows between have no
\* title
LongFile ==
  [i \in 1..LongRows |->
     IF i % GoodEvery = 0 THEN Row(<<"Inception">>, DateISO)
     ELSE Row(<<>>, DateUS)]

\* one user's upload of a long file, processed by one worker
InitLong ==
  /\ Start
  /\ cfg = [users |-> {"u1"}, sources |-> {"netflix_csv"},
            totals |-> {LongRows}, lengths |-> {0, LongRows},
            budget |-> LongRows, file |-> LongFile,
            pool |-> {LongFile[i] : i \in 1..LongRows}, workers |-> {"w1"}, orm |-> "migrations"]

(***************************************************************************)
(* ImportService.create_import_job                                         *)
(***************************************************************************)
NewJob(user_id, source, total_rows) ==
  [user_id |-> user_id, source |-> source, status |-> "pending",
   total_rows |-> total_rows, processed_rows |-> 0, successful_rows |-> 0,
   failed_rows |-> 0, error_log |-> <<>>,
   started_at |-> NULL, completed_at |-> NULL]

create_import_job(user_id, source, total_rows) ==
  /\ Len(jobs) < MaxJobs
  /\ jobs' = Append(jobs, NewJob(user_id, source, total_rows))
  /\ ret' = NoCall
  /\ UNCHANGED <<media, user_media, worker, runs, drawn, cfg, limiter, cache>>

\* datetime.utcnow() when a stamp of job is written: later than every stamp
\* the job carries (stamps of different jobs are never compared)
utcnow(job) == 1 + Max({0, job.started_at, job.completed_at})

(***************************************************************************)
(* ImportService.update_job_status: the row it writes                      *)
(***************************************************************************)
\* a status update that stamps started_at at every write of processing
M_update_job_status_Restamp(job, status, processed_rows, successful_rows, failed_rows, errors) ==
  [job EXCEPT
     !.status = status,
     !.processed_rows = processed_rows,
     !.successful_rows = successful_rows,
     !.failed_rows = failed_rows,
     !.error_log = IF errors # <<>> THEN errors ELSE @,
     !.started_at = IF status = "processing" THEN utcnow(job) ELSE @,
     !.completed_at = IF status \in Terminal THEN utcnow(job) ELSE @]

update_job_status(job, status, processed_rows, successful_rows, failed_rows, errors) ==
  [job EXCEPT
     !.status = status,
     !.processed_rows = processed_rows,
     !.successful_rows = successful_rows,
     !.failed_rows = failed_rows,
     !.error_log = IF errors # <<>> THEN errors ELSE @,
     !.started_at = IF status = "processing" /\ @ = NULL
                    THEN utcnow(job) ELSE @,
     !.completed_at = IF status \in Terminal THEN utcnow(job) ELSE @]

\* errors[:100]
Head100(errors) ==
  IF Len(errors) <= ErrorLogCap THEN errors ELSE SubSeq(errors, 1, ErrorLogCap)

(***************************************************************************)
(* ImportService.cancel_import_job                                         *)
(***************************************************************************)
\* a cancel that forgets the completion stamp
M_CancelledJob_NoStamp(job) ==
  [job EXCEPT !.status = "failed",
              !.error_log = <<[error |-> "Cancelled by user"]>>]

CancelledJob(job) ==
  [job EXCEPT !.status = "failed",
              !.completed_at = utcnow(job),
              !.error_log = <<[error |-> "Cancelled by user"]>>]

\* a cancel that does not look at the status
M_CanCancel_AnyStatus(job_id, user_id) ==
  /\ job_id \in JobIds
  /\ jobs[job_id].user_id = user_id

CanCancel(job_id, user_id) ==
  /\ job_id \in JobIds
  /\ jobs[job_id].user_id = user_id
  /\ jobs[job_id].status = "pending"

cancel_import_job(job_id, user_id) ==
  /\ jobs' = IF CanCancel(job_id, user_id)
             THEN [jobs EXCEPT ![job_id] = CancelledJob(@)]
             ELSE jobs
  /\ ret' = [op |-> "cancel", value |-> CanCancel(job_id, user_id)]
  /\ UNCHANGED <<media, user_media, worker, runs, drawn, cfg, limiter, cache>>

(***************************************************************************)
(* ImportService.get_import_job                                            *)
(***************************************************************************)
\* scalar_one_or_none() of a query with no row
NoJob == [status |-> "none"]

\* a lookup by the id alone
M_OwnJob_AnyUser(job_id, user_id) == job_id \in JobIds

\* the WHERE clause: the id and the owner
OwnJob(job_id, user_id) ==
  /\ job_id \in JobIds
  /\ jobs[job_id].user_id = user_id

get_import_job(job_id, user_id) ==
  /\ ret' = [op |-> "get", job_id |-> job_id, user_id |-> user_id,
             job |-> IF OwnJob(job_id, user_id) THEN jobs[job_id] ELSE NoJob]
  /\ UNCHANGED <<jobs, media, user_media, worker, runs, drawn, cfg, limiter, cache>>

(***************************************************************************)
(* Tables as a worker's session sees them                                  *)
(***************************************************************************)
Ids(rows) == {r.id : r \in rows}

\* a fresh primary key (uuid4): one no committed or pending row carries
NewMediaId ==
  1 + Max({0} \cup Ids(media)
              \cup UNION {Ids(worker[w].tx.media_ins) : w \in Workers})

NewUserMediaId ==
  1 + Max({0} \cup Ids(user_media)
              \cup UNION {Ids(worker[w].tx.um_ins) : w \in Workers})

\* a commit under a unique index on lower(title)
M_CommitMedia_UniqueTitle(committed, tx) ==
  {m \in committed : m.id \notin Ids(tx.media_upd)}
    \cup tx.media_upd
    \cup {m \in tx.media_ins :
           \A c \in committed : lower(c.title) # lower(m.title)}

\* session.commit(): the pending rows replace or join the committed ones
CommitMedia(committed, tx) ==
  {m \in committed : m.id \notin Ids(tx.media_upd)}
    \cup tx.media_upd \cup tx.media_ins

CommitUserMedia(committed, tx) == committed \cup tx.um_ins

(***************************************************************************)
(* NetflixCSVParser._find_or_create_media                                  *)
(***************************************************************************)
\* a lookup that compares the titles as they are written
M_MediaByTitle_CaseSensitive(rows, title) == {m \in rows : m.title = title}

\* select(Media).where(func.lower(Media.title) == title.lower())
MediaByTitle(rows, title) == {m \in rows : lower(m.title) = lower(title)}

\* a merge that always takes the decomposed type
M_MergedMedia_Overwrite(m, media_type, metadata) ==
  [m EXCEPT !.netflix_imports = Append(@, metadata),
            !.type = media_type]

\* the row written for a Media that was found
MergedMedia(m, media_type, metadata) ==
  [m EXCEPT !.netflix_imports = Append(@, metadata),
            !.type = IF @ \in {"", "unknown"} /\ media_type # "unknown"
                     THEN media_type ELSE @]

\* the row inserted for a Media that was not found;
\* tmdb is what _enrich_with_tmdb_data obtained for a new tv_series
CreatedMedia(id, title, media_type, metadata, tmdb) ==
  [id |-> id, title |-> title,
   base_title |-> IF media_type = "tv_series" THEN title ELSE None,
   type |-> media_type,
   media_metadata |-> metadata,
   netflix_imports |-> <<>>,
   total_episodes |-> IF media_type = "tv_series" /\ tmdb = "data"
                      THEN 1 ELSE NULL]

TmdbOutcomes == {"data", "not_found", "error"}

\* a resolver that creates a Media for every row
M_find_or_create_media_NoLookup(tx, found, parsed, tmdb) ==
  [tx |-> [tx EXCEPT !.media_ins =
             @ \cup {CreatedMedia(NewMediaId, parsed.main_title,
                                  parsed.type, parsed.metadata, tmdb)}],
   media_id |-> NewMediaId]

\* the transaction and the Media id after find-or-create; found is the row
\* the lookup returned (found = {} : none), tmdb the enrichment outcome
find_or_create_media(tx, found, parsed, tmdb) ==
  IF found # {}
  THEN LET m == CHOOSE x \in found : TRUE
       IN  [tx |-> [tx EXCEPT !.media_upd =
                      @ \cup {MergedMedia(m, parsed.type, parsed.metadata)}],
            media_id |-> m.id]
  ELSE [tx |-> [tx EXCEPT !.media_ins =
                  @ \cup {CreatedMedia(NewMediaId, parsed.main_title,
                                       parsed.type, parsed.metadata, tmdb)}],
        media_id |-> NewMediaId]

(***************************************************************************)
(* NetflixCSVParser.process_row, the consumption record                    *)
(***************************************************************************)
\* a probe that finds nothing
M_Probe_FindsNothing(rows, user_id, media_id, parsed) == {}

\* the rows the probe query returns
Probe(rows, user_id, media_id, parsed) ==
  {r \in rows :
     /\ r.user_id = user_id
     /\ r.media_id = media_id
     /\ IF parsed.type = "tv_series"
           /\ parsed.episode_title # None /\ parsed.episode_title # <<>>
        THEN /\ r.season_number = parsed.season_number
             /\ r.episode_title = parsed.episode_title
        ELSE IF parsed.type = "tv_series" /\ parsed.episode_number # NULL
        THEN /\ r.season_number = parsed.season_number
             /\ r.episode_number = parsed.episode_number
        ELSE TRUE}

NewUserMedia(id, user_id, media_id, parsed, row) ==
  [id |-> id, user_id |-> user_id, media_id |-> media_id,
   platform |-> "netflix",
   consumed_at |-> IF row.Date # EmptyDate THEN parse_date(row.Date)
                   ELSE NoDate,
   imported_from |-> "netflix_csv",
   season_number |-> parsed.season_number,
   episode_number |-> parsed.episode_number,
   episode_title |-> parsed.episode_title,
   raw_import_data |-> [original_title |-> row.Title, date |-> row.Date]]

\* idx_user_media_episode_unique (revision 006): a NULL never collides
UniqueKey(r) == <<r.user_id, r.media_id, r.season_number, r.episode_number>>

ViolatesUnique(rows, r) ==
  /\ r.season_number # NULL
  /\ r.episode_number # NULL
  /\ \E x \in rows : UniqueKey(x) = UniqueKey(r)

(***************************************************************************)
(* ImportService.manual_import                                             *)
(***************************************************************************)
\* what the requests of POST /manual carry
ManualInputs ==
  { [title |-> <<"arcane">>, media_type |-> ""],
    [title |-> <<"Inception">>, media_type |-> "movie"],
    [title |-> <<"Inception">>, media_type |-> "tv_series"] }

\* the column default of media_metadata: the keyword metadata of the
\* constructor call is not the column
NoMetadata == [manually_added |-> FALSE]

\* lines 266-270: the Media of a title no Media carries
ManualMedia(id, title, media_type) ==
  [id |-> id, title |-> title, base_title |-> None,
   type |-> IF media_type = "" THEN "unknown" ELSE media_type,
   media_metadata |-> NoMetadata, netflix_imports |-> <<>>,
   total_episodes |-> NULL]

\* lines 285-295: the consumption record, written without a probe
ManualUserMedia(id, user_id, media_id, title) ==
  [id |-> id, user_id |-> user_id, media_id |-> media_id,
   platform |-> "netflix", consumed_at |-> NoDate,
   imported_from |-> "manual",
   season_number |-> NULL, episode_number |-> NULL, episode_title |-> None,
   raw_import_data |-> [title |-> title, notes |-> None]]

ManualRecords == {r \in user_media : r.imported_from = "manual"}

\* one request, handled by the free session w in one transaction
manual_import(w, user_id, title, media_type) ==
  LET found == MediaByTitle(media, title)
  IN  /\ worker[w].pc = "idle"
      /\ Cardinality(ManualRecords) < MaxManual
      /\ \E m \in IF found = {}
                  THEN {ManualMedia(NewMediaId, title, media_type)}
                  ELSE found :
            /\ media' = media \cup {m}
            /\ user_media' = user_media \cup
                 {ManualUserMedia(NewUserMediaId, user_id, m.id, title)}
      /\ ret' = NoCall
      /\ UNCHANGED <<jobs, worker, runs, drawn, cfg, limiter, cache>>

(***************************************************************************)
(* ImportService.process_csv_import                                        *)
(***************************************************************************)
\* lines 149-159: read the job, mark it processing
RunStart(w, job_id) ==
  /\ worker[w].pc = "idle"
  /\ runs < MaxRuns
  /\ job_id \in 1..MaxJobs
  /\ IF job_id \in JobIds
     THEN LET job == jobs[job_id]
              new == update_job_status(job, "processing", 0, 0, 0, <<>>)
          IN  /\ jobs' = [jobs EXCEPT ![job_id] = new]
              /\ worker' = [worker EXCEPT ![w] =
                   [IdleWorker EXCEPT !.pc = "parse", !.job_id = job_id,
                                      !.user_id = job.user_id,
                                      !.source = job.source]]
              /\ runs' = runs + 1
     ELSE UNCHANGED <<jobs, worker, runs>>
  /\ ret' = NoCall
  /\ UNCHANGED <<media, user_media, drawn, cfg, limiter, cache>>

\* the numbers of rows parse_csv can return for an upload in which
\* count_rows found total_rows records after the header: both read the same
\* records, DictReader leaves out the blank ones
ParsedLengths(total_rows) == 0..total_rows

\* a run that hands the rows of any source to the Netflix parser
M_RunParse_AnySource(w) ==
  /\ worker[w].pc = "parse"
  /\ \E n \in cfg.lengths \cap
                ParsedLengths(jobs[worker[w].job_id].total_rows) :
       /\ drawn + n <= cfg.budget
       /\ drawn' = drawn + n
       /\ worker' = [worker EXCEPT ![w] =
            IF n = 0
            THEN [@ EXCEPT !.pc = "fatal", !.exc = "No data rows found in CSV"]
            ELSE [@ EXCEPT !.pc = "row", !.n = n, !.idx = 1]]
  /\ ret' = NoCall
  /\ UNCHANGED <<jobs, media, user_media, runs, cfg, limiter, cache>>

\* lines 161-175: parse the file, choose the parser
RunParse(w) ==
  /\ worker[w].pc = "parse"
  /\ \E n \in cfg.lengths \cap
                ParsedLengths(jobs[worker[w].job_id].total_rows) :
       /\ drawn + n <= cfg.budget
       /\ drawn' = drawn + n
       /\ worker' = [worker EXCEPT ![w] =
            IF n = 0
            THEN [@ EXCEPT !.pc = "fatal", !.exc = "No data rows found in CSV"]
            ELSE IF @.source # "netflix_csv"
            THEN [@ EXCEPT !.pc = "fatal",
                           !.exc = "Unsupported import source"]
            ELSE [@ EXCEPT !.pc = "row", !.n = n, !.idx = 1]]
  /\ ret' = NoCall
  /\ UNCHANGED <<jobs, media, user_media, runs, cfg, limiter, cache>>

\* what _enrich_with_tmdb_data comes to for a new tv_series: line 368 reads
\* media.total_episodes before the try; the class Media of db/models.py
\* declares no such attribute (revision 007 adds the column)
EnrichOutcomes ==
  IF cfg.orm = "models" THEN {"no_attribute"} ELSE TmdbOutcomes

\* the rows the file can hold at position idx
RowsAt(idx) ==
  IF idx \in DOMAIN cfg.file THEN {cfg.file[idx]} ELSE cfg.pool

\* process_row lines 42-61: title, date, find-or-create of the Media
RowResolve(w) ==
  /\ worker[w].pc = "row"
  /\ \E row \in RowsAt(worker[w].idx) :
       LET parsed == parse_netflix_title(row.Title)
       IN  IF row.Title = <<>>
           THEN worker' = [worker EXCEPT ![w].row = row,
                             ![w].pc = "row_end", ![w].exc = "Missing title"]
           ELSE IF row.Date # EmptyDate /\ parse_date_raises(row.Date)
           THEN worker' = [worker EXCEPT ![w].row = row,
                             ![w].pc = "row_end",
                             ![w].exc = "Unable to parse date"]
           ELSE \E found \in IF MediaByTitle(media, parsed.main_title) = {}
                             THEN {{}}
                             ELSE {{m} : m \in
                                     MediaByTitle(media, parsed.main_title)},
                   tmdb \in IF parsed.type = "tv_series"
                               /\ MediaByTitle(media, parsed.main_title) = {}
                            THEN EnrichOutcomes ELSE {"not_found"} :
                  LET res == find_or_create_media(worker[w].tx, found,
                                                  parsed, tmdb)
                  IN  IF tmdb = "no_attribute"
                      THEN worker' = [worker EXCEPT ![w].row = row,
                                        ![w].pc = "row_end",
                                        ![w].exc = "AttributeError",
                                        ![w].tx = res.tx,
                                        ![w].media_id = res.media_id]
                      ELSE worker' = [worker EXCEPT ![w].row = row,
                                        ![w].pc = "probe", ![w].exc = "",
                                        ![w].tx = res.tx,
                                        ![w].media_id = res.media_id]
  /\ ret' = NoCall
  /\ UNCHANGED <<jobs, media, user_media, runs, drawn, cfg, limiter, cache>>

\* the UPDATE of a found Media waits for the row lock of another session
MediaLockFree(w) ==
  \A v \in Workers \ {w} :
     worker[v].tx.locked =>
        Ids(worker[v].tx.media_upd) \cap Ids(worker[w].tx.media_upd) = {}

\* the worker after lines 63-112: probe, then skip, insert or raise
Probed(wk, rows, new_id) ==
  LET parsed   == parse_netflix_title(wk.row.Title)
      existing == Probe(rows, wk.user_id, wk.media_id, parsed)
      um       == NewUserMedia(new_id, wk.user_id, wk.media_id, parsed, wk.row)
      held     == [wk EXCEPT !.pc = "row_end",
                             !.tx.locked = (wk.tx.media_upd # {})]
  IN  IF cfg.orm = "models" /\ parsed.type = "tv_series"
         /\ (parsed.episode_title \notin {None, <<>>}
               \/ parsed.episode_number # NULL)
      THEN [held EXCEPT !.exc = "AttributeError"]
      ELSE IF Cardinality(existing) > 1
      THEN [held EXCEPT !.exc = "MultipleResultsFound"]
      ELSE IF existing # {}
      THEN held
      ELSE IF cfg.orm = "models"
      THEN [held EXCEPT !.exc = "TypeError"]
      ELSE IF ViolatesUnique(rows, um)
      THEN [held EXCEPT !.exc = "IntegrityError"]
      ELSE [held EXCEPT !.tx.um_ins = @ \cup {um}]

RowProbe(w) ==
  /\ worker[w].pc = "probe"
  /\ MediaLockFree(w)
  /\ worker' = [worker EXCEPT ![w] = Probed(@, user_media, NewUserMediaId)]
  /\ ret' = NoCall
  /\ UNCHANGED <<jobs, media, user_media, runs, drawn, cfg, limiter, cache>>

\* a loop that logs a failing row without counting it
M_RowCounted_LogOnly(wk) ==
  IF wk.exc = ""
  THEN [wk EXCEPT !.successful = @ + 1]
  ELSE [wk EXCEPT !.errors = Append(@, [row |-> wk.idx, error |-> wk.exc,
                                        data |-> wk.row])]

\* the worker after lines 180-191: commit or rollback, counters, error list
RowCounted(wk) ==
  IF wk.exc = ""
  THEN [wk EXCEPT !.successful = @ + 1]
  ELSE [wk EXCEPT !.failed = @ + 1,
                  !.errors = Append(@, [row |-> wk.idx, error |-> wk.exc,
                                        data |-> wk.row])]

\* a loop that a failing row ends
M_LoopNext_Abort(wk) ==
  [wk EXCEPT !.tx = EmptyTx, !.exc = "", !.media_id = 0,
             !.pc = IF wk.idx < wk.n /\ wk.exc = "" THEN "row" ELSE "final",
             !.idx = IF wk.idx < wk.n /\ wk.exc = "" THEN @ + 1 ELSE @]

\* the worker at the end of one turn of the loop of line 177: the next row,
\* or the end of the loop after the last one
LoopNext(wk) ==
  [wk EXCEPT !.tx = EmptyTx, !.exc = "", !.media_id = 0,
             !.pc = IF wk.idx < wk.n THEN "row" ELSE "final",
             !.idx = IF wk.idx < wk.n THEN @ + 1 ELSE @]

\* a loop that stores a snapshot at the end of every row
M_RowEnd_EveryRow(w) ==
  LET wk  == worker[w]
      cnt == RowCounted(wk)
      job == jobs[wk.job_id]
      new == update_job_status(job, "processing", wk.idx, cnt.successful,
                               cnt.failed, Head100(cnt.errors))
  IN  /\ wk.pc = "row_end"
      /\ media' = IF wk.exc = "" THEN CommitMedia(media, wk.tx) ELSE media
      /\ user_media' = IF wk.exc = "" THEN CommitUserMedia(user_media, wk.tx)
                       ELSE user_media
      /\ jobs' = [jobs EXCEPT ![wk.job_id] = new]
      /\ worker' = [worker EXCEPT ![w] = LoopNext(cnt)]
      /\ ret' = NoCall
      /\ UNCHANGED <<runs, drawn, cfg, limiter, cache>>

\* lines 180-202: end of one row, progress snapshot, next row
RowEnd(w) ==
  LET wk  == worker[w]
      cnt == RowCounted(wk)
      job == jobs[wk.job_id]
      new == IF wk.idx % ProgressEvery = 0
             THEN update_job_status(job, "processing", wk.idx, cnt.successful,
                                    cnt.failed, Head100(cnt.errors))
             ELSE job
  IN  /\ wk.pc = "row_end"
      /\ media' = IF wk.exc = "" THEN CommitMedia(media, wk.tx) ELSE media
      /\ user_media' = IF wk.exc = "" THEN CommitUserMedia(user_media, wk.tx)
                       ELSE user_media
      /\ jobs' = [jobs EXCEPT ![wk.job_id] = new]
      /\ worker' = [worker EXCEPT ![w] = LoopNext(cnt)]
      /\ ret' = NoCall
      /\ UNCHANGED <<runs, drawn, cfg, limiter, cache>>

\* a final status that knows no partial outcome
M_FinalStatus_NoPartial(successful, failed) ==
  IF successful = 0 THEN "failed" ELSE "completed"

\* lines 204-210
FinalStatus(successful, failed) ==
  IF failed = 0 THEN "completed"
  ELSE IF successful = 0 THEN "failed"
  ELSE "partial"

\* lines 204-219: the terminal state after the loop
RunFinal(w) ==
  LET wk  == worker[w]
      job == jobs[wk.job_id]
      new == update_job_status(job, FinalStatus(wk.successful, wk.failed),
                               wk.n, wk.successful, wk.failed,
                               Head100(wk.errors))
  IN  /\ wk.pc = "final"
      /\ jobs' = [jobs EXCEPT ![wk.job_id] = new]
      /\ worker' = [worker EXCEPT ![w] = IdleWorker]
      /\ ret' = NoCall
      /\ UNCHANGED <<media, user_media, runs, drawn, cfg, limiter, cache>>

\* a top-level handler that rolls back and leaves the job as it is
M_RunFatal_NoMark(w) ==
  /\ worker[w].pc = "fatal"
  /\ worker' = [worker EXCEPT ![w] = IdleWorker]
  /\ ret' = NoCall
  /\ UNCHANGED <<jobs, media, user_media, runs, drawn, cfg, limiter, cache>>

\* lines 221-230: the top-level handler
RunFatal(w) ==
  LET wk  == worker[w]
      job == jobs[wk.job_id]
      new == update_job_status(job, "failed", 0, 0, 0,
                               <<[error |-> wk.exc]>>)
  IN  /\ wk.pc = "fatal"
      /\ jobs' = [jobs EXCEPT ![wk.job_id] = new]
      /\ worker' = [worker EXCEPT ![w] = IdleWorker]
      /\ ret' = NoCall
      /\ UNCHANGED <<media, user_media, runs, drawn, cfg, limiter, cache>>

process_csv_import(w) ==
  \/ \E job_id \in 1..MaxJobs : RunStart(w, job_id)
  \/ RunParse(w)
  \/ RowResolve(w)
  \/ RowProbe(w)
  \/ RowEnd(w)
  \/ RunFinal(w)
  \/ RunFatal(w)

(***************************************************************************)
(* Specification                                                           *)
(***************************************************************************)
Next ==
  \/ \E u \in cfg.users, src \in cfg.sources, total \in cfg.totals :
        create_import_job(u, src, total)
  \/ \E job_id \in 1..MaxJobs, u \in cfg.users : cancel_import_job(job_id, u)
  \/ \E w \in cfg.workers : process_csv_import(w)

Spec == Init /\ [][Next]_vars

SpecRows == InitRows /\ [][Next]_vars

SpecLong == InitLong /\ [][Next]_vars

\* the imports of one user: uploads run by one worker, and manual imports
InitManual ==
  /\ Start
  /\ cfg = [users |-> {"u1"}, sources |-> {"netflix_csv"},
            totals |-> {MaxRows}, lengths |-> 0..MaxRows, budget |-> MaxDrawn,
            file |-> <<>>,
            pool |-> {Row(<<"Arcane", ":", "Staffel", "2", ":", "Episode", "3">>,
                          DateUS),
                      Row(<<"INCEPTION">>, DateISO)},
            workers |-> {"w1"}, orm |-> "migrations"]

NextManual ==
  \/ Next
  \/ \E w \in cfg.workers, u \in cfg.users, i \in ManualInputs :
        manual_import(w, u, i.title, i.media_type)

SpecManual == InitManual /\ [][NextManual]_vars

\* the uploads of one user, run by two workers at the same time
InitRace ==
  /\ Start
  /\ cfg = [users |-> {"u1"}, sources |-> {"netflix_csv"},
            totals |-> {MaxRows}, lengths |-> 0..MaxRows, budget |-> MaxDrawn,
            file |-> <<>>,
            pool |-> {Row(<<"Arcane", ":", "Staffel", "2", ":", "Episode", "3">>,
                          DateUS),
                      Row(<<"Inception">>, DateISO)},
            workers |-> Workers, orm |-> "migrations"]

SpecRace == InitRace /\ [][Next]_vars

\* one user's uploads run with the classes Media and UserMedia of
\* db/models.py, which declare none of the columns of revisions 006 and 007
InitModels ==
  /\ Start
  /\ cfg = [users |-> {"u1"}, sources |-> {"netflix_csv"},
            totals |-> {MaxRows}, lengths |-> 0..MaxRows, budget |-> MaxDrawn,
            file |-> <<>>,
            pool |-> {Row(<<"Arcane", ":", "Staffel", "2", ":", "Episode", "3">>,
                          DateUS),
                      Row(<<"Inception">>, DateISO)},
            workers |-> {"w1"}, orm |-> "models"]

SpecModels == InitModels /\ [][Next]_vars

\* dates as viewing histories write them: month first, day first, with two
\* and with four digits of the year, with slashes and with hyphens, and two
\* that no calendar has
DatePool ==
  { DateUS, DateISO,
    [sep |-> "/", f |-> <<Field(3, 1), Field(4, 1), Field(25, 2)>>],
    [sep |-> "/", f |-> <<Field(26, 2), Field(6, 1), Field(25, 2)>>],
    [sep |-> "/", f |-> <<Field(3, 2), Field(4, 2), Field(2024, 4)>>],
    [sep |-> "/", f |-> <<Field(29, 2), Field(2, 2), Field(2024, 4)>>],
    [sep |-> "-", f |-> <<Field(3, 2), Field(4, 2), Field(2024, 4)>>],
    [sep |-> "-", f |-> <<Field(26, 2), Field(6, 2), Field(2024, 4)>>],
    [sep |-> "-", f |-> <<Field(3, 2), Field(4, 2), Field(99, 2)>>],
    [sep |-> "-", f |-> <<Field(31, 2), Field(12, 2), Field(24, 2)>>],
    [sep |-> "/", f |-> <<Field(2, 1), Field(30, 2), Field(25, 2)>>],
    [sep |-> "/", f |-> <<Field(31, 2), Field(4, 1), Field(25, 2)>>] }

\* one user's uploads of one-row files with the dates of DatePool
InitDates ==
  /\ Start
  /\ cfg = [users |-> {"u1"}, sources |-> {"netflix_csv"},
            totals |-> {MaxRows}, lengths |-> {0, 1}, budget |-> MaxDrawn,
            file |-> <<>>,
            pool |-> {Row(<<"Inception">>, d) : d \in DatePool},
            workers |-> {"w1"}, orm |-> "migrations"]

SpecDates == InitDates /\ [][Next]_vars

\* titles as viewing histories write them: a film, episodes with a blank
\* after each colon, a series with blanks on both sides of the colons, a
\* season without episode, a film with a subtitle, a title of colons only
TitlePool ==
  { <<"Inception">>,
    <<"Ozark", ":", " ", "Season", "4", ":", " ", "Part", "2", ":", " ",
      "Episode", "7">>,
    <<"Arcane", ":", " ", "Staffel", "2", ":", " ", "Episode", "3">>,
    <<"Arcane", " ", ":", " ", "Limited", "Series", " ", ":", " ", "Finale">>,
    <<"The", "Office", ":", " ", "Season", "2">>,
    <<"Inception", ":", " ", "Part", "2">>,
    <<":", ":">> }

\* one user's uploads of one-row files with the titles of TitlePool
InitTitles ==
  /\ Start
  /\ cfg = [users |-> {"u1"}, sources |-> {"netflix_csv"},
            totals |-> {MaxRows}, lengths |-> {0, 1}, budget |-> MaxDrawn,
            file |-> <<>>,
            pool |-> {Row(t, DateISO) : t \in TitlePool},
            workers |-> {"w1"}, orm |-> "migrations"]

SpecTitles == InitTitles /\ [][Next]_vars

(***************************************************************************)
(* RateLimiter.check_rate_limit.  A sorted set per key holds one member    *)
(* per request, str(now) with the score now: two requests that read the    *)
(* same time are the same member.  The pipeline of lines 64-78 is one      *)
(* transaction of Redis; the commands of lines 85 and 92 are sent after    *)
(* it, one by one, and other callers' commands run in between.             *)
(***************************************************************************)
MaxClock == 3

MaxCalls == 4

max_requests == 2

window_seconds == 3

CallsMade ==
  Len(limiter.returned) + Cardinality({c \in Callers : limiter.call[c].pc # "idle"})

\* time passes; Redis deletes the keys whose time to live is over
Tick ==
  /\ limiter.clock < MaxClock
  /\ limiter' = [limiter EXCEPT
       !.clock = @ + 1,
       !.zset = [k \in Keys |->
                   IF limiter.zset[k] # {} /\ limiter.expires[k] <= limiter.clock + 1
                   THEN {} ELSE limiter.zset[k]]]
  /\ UNCHANGED <<jobs, media, user_media, worker, runs, drawn, ret, cfg, cache>>

\* lines 59-61: the caller reads the time; a caller is a process, it reads
\* a later time at each of its calls, and two callers can read the same time
RlNow(c, key) ==
  /\ limiter.call[c].pc = "idle"
  /\ limiter.call[c].now < limiter.clock
  /\ CallsMade < MaxCalls
  /\ limiter' = [limiter EXCEPT
       !.call[c] = [IdleCall EXCEPT !.pc = "pipe", !.key = key,
                                    !.now = limiter.clock]]
  /\ UNCHANGED <<jobs, media, user_media, worker, runs, drawn, ret, cfg, cache>>

Returned(c, allowed, requests_made, retry_after) ==
  [caller |-> c, key |-> limiter.call[c].key, now |-> limiter.call[c].now,
   allowed |-> allowed, requests_made |-> requests_made,
   retry_after |-> retry_after]

\* lines 64-82: zremrangebyscore, zcard, zadd and expire in one transaction,
\* and the return of a request within the limit
RlPipe(c) ==
  LET call    == limiter.call[c]
      kept    == {s \in limiter.zset[call.key] : s > call.now - window_seconds}
      current == Cardinality(kept)
  IN  /\ call.pc = "pipe"
      /\ limiter' = [limiter EXCEPT
           !.zset[call.key] = kept \cup {call.now},
           !.expires[call.key] = limiter.clock + window_seconds,
           !.call[c] = IF current < max_requests
                       THEN [IdleCall EXCEPT !.now = call.now]
                       ELSE [call EXCEPT !.pc = "oldest",
                                         !.current_requests = current],
           !.returned = IF current < max_requests
                        THEN Append(@, Returned(c, TRUE, current + 1, 0))
                        ELSE @]
      /\ UNCHANGED <<jobs, media, user_media, worker, runs, drawn, ret, cfg, cache>>

\* lines 85-89: the oldest member of the set as it is now
RlOldest(c) ==
  LET call == limiter.call[c]
      set  == limiter.zset[call.key]
  IN  /\ call.pc = "oldest"
      /\ limiter' = [limiter EXCEPT
           !.call[c].pc = "zrem",
           !.call[c].retry_after =
              IF set # {} THEN Min(set) + window_seconds - call.now + 1
              ELSE window_seconds]
      /\ UNCHANGED <<jobs, media, user_media, worker, runs, drawn, ret, cfg, cache>>

\* lines 92-94: the member str(now) is removed, the request is denied
RlZrem(c) ==
  LET call == limiter.call[c]
  IN  /\ call.pc = "zrem"
      /\ limiter' = [limiter EXCEPT
           !.zset[call.key] = @ \ {call.now},
           !.call[c] = [IdleCall EXCEPT !.now = call.now],
           !.returned = Append(@, Returned(c, FALSE, call.current_requests,
                                           call.retry_after))]
      /\ UNCHANGED <<jobs, media, user_media, worker, runs, drawn, ret, cfg, cache>>

check_rate_limit(c) ==
  \/ \E key \in Keys : RlNow(c, key)
  \/ RlPipe(c)
  \/ RlOldest(c)
  \/ RlZrem(c)

\* the callers of check_rate_limit and the clock; no import is made
InitLimiter ==
  /\ Start
  /\ cfg = [users |-> {}, sources |-> {}, totals |-> {}, lengths |-> {},
            budget |-> 0, file |-> <<>>, pool |-> {}, workers |-> {},
            orm |-> "migrations"]

NextLimiter ==
  \/ Tick
  \/ \E c \in Callers : check_rate_limit(c)

SpecLimiter == InitLimiter /\ [][NextLimiter]_vars

(***************************************************************************)
(* TMDBClient.search_tv behind tmdb_rate_limit and tmdb_cached.  The key   *)
(* of the cache is built by the wrapper of cached from key_prefix, the     *)
(* name of the function and, of the names in key_args, those the caller    *)
(* passed by keyword.  One call is one step: the result of the API is a    *)
(* function of query and year, at whatever time it is asked.               *)
(***************************************************************************)
MaxSearches == 2

Queries == {"Arcane", "Ozark"}

\* str(year); a year that is not given is None
Years == {"None", "2020"}

\* search_tv(query, year), search_tv(query, year=year) and
\* search_tv(query=query, year=year): the names passed by keyword
CallStyles ==
  [positional |-> {}, year_keyword |-> {"year"}, keyword |-> {"query", "year"}]

key_args == <<"query", "year">>

\* lines 165-184: the parts of the key, which ':'.join makes the key
CacheKey(kwargs) ==
  <<"tmdb", "search_tv">> \o
    SelectSeq([i \in 1..Len(key_args) |->
                 IF key_args[i] \in DOMAIN kwargs THEN kwargs[key_args[i]]
                 ELSE "<absent>"],
              LAMBDA part : part # "<absent>")

\* the keyword arguments of a call of the given style
Kwargs(query, year, style) ==
  [name \in CallStyles[style] |-> IF name = "query" THEN query ELSE year]

\* what GET /search/tv answers for query and year
Results(query, year) == <<[name |-> query, first_air_date_year |-> year]>>

\* the keys the calls can make
CacheKeys ==
  {CacheKey(Kwargs(query, year, style)) :
     query \in Queries, year \in Years, style \in DOMAIN CallStyles}

Cached(key) == {e \in cache.store : e.key = key}

\* tmdb_rate_limit (rate_limiter.py 206-230) around the wrapper of cached
\* (cache.py 163-202) around search_tv (tmdb_client.py 39-75)
search_tv(query, year, style, allowed, outcome) ==
  LET key    == CacheKey(Kwargs(query, year, style))
      hit    == Cached(key) # {}
      result == IF ~allowed THEN <<>>
                ELSE IF hit THEN (CHOOSE e \in Cached(key) : TRUE).value
                ELSE IF outcome = "ok" THEN Results(query, year)
                ELSE <<>>
  IN  /\ Len(cache.returned) < MaxSearches
      /\ cache' = [cache EXCEPT
           !.store = IF allowed /\ ~hit
                     THEN @ \cup {[key |-> key, value |-> result]} ELSE @,
           !.api_calls = IF allowed /\ ~hit /\ outcome # "no_api_key"
                         THEN @ + 1 ELSE @,
           !.returned = Append(@, [query |-> query, year |-> year,
                                   style |-> style, result |-> result,
                                   from_cache |-> allowed /\ hit,
                                   api_calls |-> cache.api_calls])]
      /\ UNCHANGED <<jobs, media, user_media, worker, runs, drawn, ret, cfg, limiter>>

\* setex with ttl_seconds: Redis deletes the key when its time is over
CacheExpire(key) ==
  /\ Cached(key) # {}
  /\ cache' = [cache EXCEPT !.store = @ \ Cached(key)]
  /\ UNCHANGED <<jobs, media, user_media, worker, runs, drawn, ret, cfg, limiter>>

\* the callers of search_tv; no import is made
InitCache ==
  /\ Start
  /\ cfg = [users |-> {}, sources |-> {}, totals |-> {}, lengths |-> {},
            budget |-> 0, file |-> <<>>, pool |-> {}, workers |-> {},
            orm |-> "migrations"]

NextCache ==
  \/ \E query \in Queries, year \in Years, style \in DOMAIN CallStyles,
        allowed \in BOOLEAN, outcome \in {"ok", "http_error", "no_api_key"} :
        search_tv(query, year, style, allowed, outcome)
  \/ \E key \in CacheKeys : CacheExpire(key)

SpecCache == InitCache /\ [][NextCache]_vars

\* one episode as three rows write it: with two dates, in capitals, and
\* without a date
InitSeries ==
  /\ Start
  /\ cfg = [users |-> {"u1"}, sources |-> {"netflix_csv"},
            totals |-> {MaxRows}, lengths |-> {0, 1, 2}, budget |-> MaxDrawn,
            file |-> <<>>,
            pool |-> {Row(<<"Arcane", ":", " ", "Staffel", "2", ":", " ",
                            "Episode", "3">>, DateUS),
                      Row(<<"ARCANE", ":", " ", "Staffel", "2", ":", " ",
                            "Episode", "3">>, DateISO),
                      Row(<<"Arcane", ":", "Staffel", "2", ":", "Episode",
                            "3">>, EmptyDate)},
            workers |-> {"w1"}, orm |-> "migrations"]

SpecSeries == InitSeries /\ [][Next]_vars

\* the jobs of two users, with the status queries of both
InitQuery ==
  /\ Start
  /\ cfg = [users |-> Users, sources |-> {"netflix_csv"}, totals |-> {MaxRows},
            lengths |-> {0, 1}, budget |-> MaxDrawn, file |-> <<>>,
            pool |-> {Row(<<"Inception">>, DateISO)},
            workers |-> {"w1"}, orm |-> "migrations"]

NextQuery ==
  \/ Next
  \/ \E job_id \in 1..MaxJobs, u \in Users : get_import_job(job_id, u)

SpecQuery == InitQuery /\ [][NextQuery]_vars

\* one title as a series with two episodes, as a season alone and as a bare
\* title
InitMixed ==
  /\ Start
  /\ cfg = [users |-> {"u1"}, sources |-> {"netflix_csv"},
            totals |-> {MaxRows}, lengths |-> 0..MaxRows, budget |-> MaxDrawn,
            file |-> <<>>,
            pool |-> {Row(<<"Arcane", ":", "Staffel", "2", ":", "Episode", "3">>,
                          DateUS),
                      Row(<<"Arcane", ":", "Staffel", "2", ":", "Episode", "4">>,
                          DateUS),
                      Row(<<"Arcane", ":", "Staffel", "2">>, DateISO),
                      Row(<<"arcane">>, DateISO)},
            workers |-> {"w1"}, orm |-> "migrations"]

SpecMixed == InitMixed /\ [][Next]_vars

\* a call of process_csv_import that has started runs to its end: the event
\* loop resumes the coroutine after each await
RunSteps(w) ==
  \/ RunParse(w)
  \/ RowResolve(w)
  \/ RowProbe(w)
  \/ RowEnd(w)
  \/ RunFinal(w)
  \/ RunFatal(w)

FairSpec ==
  InitRuns /\ [][Next]_vars /\ \A w \in Workers : WF_vars(RunSteps(w))

(***************************************************************************)
(* Properties                                                              *)
(***************************************************************************)
\* worker w takes the step it is at when its position is pc
StepAt(w, pc) == worker[w].pc = pc /\ worker'[w] # worker[w]

\* the decomposed title of the row worker w is at
ParsedRow(w) == parse_netflix_title(worker[w].row.Title)

\* record r is the consumption unit (user, media, season, episode title)
SameEpisode(r, user_id, media_id, parsed) ==
  /\ r.user_id = user_id
  /\ r.media_id = media_id
  /\ r.season_number = parsed.season_number
  /\ r.episode_title = parsed.episode_title

\* the consumption records of the unit the row of worker w decomposes to
EpisodeRecords(rows, w) ==
  {r \in rows : SameEpisode(r, worker[w].user_id, worker[w].media_id,
                            ParsedRow(w))}

\* the identity a row decomposes to, the Media taken by its title
RowIdentity(row) ==
  LET parsed == parse_netflix_title(row.Title)
  IN  <<lower(parsed.main_title), parsed.type, parsed.season_number,
        parsed.episode_title>>

AllowedTransitions ==
  { <<"pending", "processing">>, <<"processing", "completed">>,
    <<"processing", "partial">>, <<"processing", "failed">>,
    <<"pending", "failed">> }

\* C1: every change of a job's status is pending -> processing,
\* processing -> completed | partial | failed, or pending -> failed by
\* cancel; no change leaves completed, partial or failed.
C1_StatusTransitions ==
  [][\A j \in JobIds :
        jobs'[j].status # jobs[j].status =>
          /\ <<jobs[j].status, jobs'[j].status>> \in AllowedTransitions
          /\ (jobs[j].status = "pending" /\ jobs'[j].status = "failed"
                => ret'.op = "cancel")]_vars

\* C2: process_csv_import on a job that is completed, partial or failed
\* changes neither the job nor the Media and consumption records.
C2_RunOnTerminalIsNoOp ==
  [][\A w \in Workers : \A j \in JobIds :
        (RunStart(w, j) /\ jobs[j].status \in Terminal) =>
          /\ jobs'[j] = jobs[j]
          /\ media' = media
          /\ user_media' = user_media
          /\ worker'[w].pc = "idle"]_vars

\* C3: a call of process_csv_import on an existing job comes to its end,
\* and when it has ended the job is completed, partial or failed.
C3_RunEndsTerminal ==
  /\ \A w \in Workers : (worker[w].pc # "idle") ~> (worker[w].pc = "idle")
  /\ [][\A w \in Workers :
          (worker[w].pc # "idle" /\ worker'[w].pc = "idle") =>
             jobs'[worker[w].job_id].status \in Terminal]_vars

C3_Witness ==
  \E j \in JobIds :
     /\ jobs[j].status = "failed"
     /\ jobs[j].error_log = <<[error |-> "Unsupported import source"]>>
     /\ \A w \in Workers : worker[w].pc = "idle"

\* C4: a run over N >= 1 rows of which K raised ends completed when K = 0,
\* failed when K = N and partial otherwise, with processed_rows = N; a row
\* counts as failed exactly when processing it raised.
C4_Isolation ==
  [][\A w \in Workers :
        /\ StepAt(w, "row_end") =>
             /\ worker'[w].failed =
                  worker[w].failed + (IF worker[w].exc # "" THEN 1 ELSE 0)
             /\ worker'[w].successful + worker'[w].failed = worker[w].idx
        /\ StepAt(w, "final") =>
             LET N   == worker[w].n
                 K   == worker[w].failed
                 job == jobs'[worker[w].job_id]
             IN  /\ N >= 1 /\ worker[w].successful + K = N
                 /\ job.status = IF K = 0 THEN "completed"
                                 ELSE IF K = N THEN "failed" ELSE "partial"
                 /\ job.processed_rows = N
                 /\ job.failed_rows = K]_vars

C4_Witness ==
  \E j \in JobIds :
     /\ jobs[j].status = "partial"
     /\ jobs[j].processed_rows = 3
     /\ jobs[j].failed_rows = 1
     /\ jobs[j].successful_rows = 2

\* an earlier row of the same identity was processed for the user of worker
\* w: its record is stored, or it is among the failed rows of this run
EarlierSameIdentity(w) ==
  \/ EpisodeRecords(user_media, w) # {}
  \/ \E i \in 1..Len(worker[w].errors) :
        RowIdentity(worker[w].errors[i].data) = RowIdentity(worker[w].row)

\* C5: when a row decomposes to the identity of a row processed before for
\* the same user, exactly one consumption record of that identity exists
\* afterwards, and the later row is not recorded as a failed row.
C5_SameIdentitySkipped ==
  [][\A w \in Workers :
        (StepAt(w, "row_end") /\ worker[w].media_id # 0
           /\ EarlierSameIdentity(w)) =>
          /\ worker'[w].failed = worker[w].failed
          /\ Cardinality(EpisodeRecords(user_media', w)) = 1]_vars

\* C6: a failing row leaves the committed Media and consumption records as
\* they are, discards its own pending changes, and the loop goes on to the
\* next row (or, after the last row, to the final status).
C6_RowFailureIsolated ==
  [][\A w \in Workers :
        (StepAt(w, "row_end") /\ worker[w].exc # "") =>
          /\ media' = media
          /\ user_media' = user_media
          /\ worker'[w].tx = EmptyTx
          /\ worker'[w].n = worker[w].n
          /\ IF worker[w].idx < worker[w].n
             THEN /\ worker'[w].pc = "row"
                  /\ worker'[w].idx = worker[w].idx + 1
             ELSE worker'[w].pc = "final"]_vars

\* rows 1 and 3 of a job around a failed row 2: row 1 is stored, row 3 is
\* about to be attempted
C6_Witness ==
  \E w \in Workers :
     /\ worker[w].pc = "row" /\ worker[w].idx = 3
     /\ worker[w].successful = 1 /\ worker[w].failed = 1
     /\ worker[w].errors[1].row = 2
     /\ user_media # {}

\* C7: a row whose identity title equals, ignoring case, the title of a
\* Media already stored resolves to that Media and creates none.
C7_MediaFoundByLaterRows ==
  [][\A w \in Workers :
        LET title == parse_netflix_title(worker'[w].row.Title).main_title
            same  == {m \in media : lower(m.title) = lower(title)}
        IN  (StepAt(w, "row") /\ worker'[w].pc = "probe" /\ same # {}) =>
              /\ worker'[w].tx.media_ins = {}
              /\ worker'[w].media_id \in Ids(same)]_vars

\* one Media "Arcane" carrying the records of two episodes
C7_Witness ==
  /\ Cardinality({m \in media : lower(m.title) = <<"arcane">>}) = 1
  /\ \E m \in media :
        /\ m.title = <<"Arcane">>
        /\ \E r1, r2 \in user_media :
              /\ r1.media_id = m.id /\ r2.media_id = m.id
              /\ r1.episode_title = <<"Episode", "3">>
              /\ r2.episode_title = <<"Episode", "4">>

\* C8: a series row with an episode title whose (season, episode title) no
\* record of the user on that Media carries gets its own record and is not
\* a failed row, whatever records of other episodes exist.
C8_EpisodeTitleIdentity ==
  [][\A w \in Workers :
        (/\ StepAt(w, "row_end") /\ worker[w].media_id # 0
         /\ ParsedRow(w).type = "tv_series"
         /\ ParsedRow(w).episode_title \notin {None, <<>>}
         /\ EpisodeRecords(user_media, w) = {}
         /\ \E x \in user_media :
               /\ x.user_id = worker[w].user_id
               /\ x.media_id = worker[w].media_id) =>
          /\ worker'[w].failed = worker[w].failed
          /\ EpisodeRecords(user_media', w) # {}]_vars

\* C9: a skipped row raises neither successful nor failed, so successful
\* grows exactly with the consumption records created.
C9_SkipCountedApart ==
  [][\A w \in Workers :
        StepAt(w, "row_end") =>
          /\ worker'[w].successful - worker[w].successful =
               Cardinality(user_media') - Cardinality(user_media)
          /\ (worker[w].exc = "" /\ worker[w].tx.um_ins = {} =>
                worker'[w].failed = worker[w].failed)]_vars

\* C10: cancel of a pending job by its owner returns true and leaves the job
\* failed, with a completion stamp and the one entry "Cancelled by user".
C10_CancelPending ==
  [][\A j \in JobIds : \A u \in Users :
        (cancel_import_job(j, u) /\ jobs[j].status = "pending"
           /\ jobs[j].user_id = u) =>
          /\ ret' = [op |-> "cancel", value |-> TRUE]
          /\ jobs'[j].status = "failed"
          /\ jobs'[j].completed_at # NULL
          /\ jobs'[j].error_log = <<[error |-> "Cancelled by user"]>>]_vars

C10_Witness ==
  /\ ret = [op |-> "cancel", value |-> TRUE]
  /\ \E j \in JobIds :
        /\ jobs[j].status = "failed"
        /\ jobs[j].completed_at # NULL
        /\ jobs[j].started_at = NULL
        /\ jobs[j].error_log = <<[error |-> "Cancelled by user"]>>

\* C11: cancel on a job that is processing, completed, partial or failed
\* returns false and leaves every field of the job as it was.
C11_CancelNotPending ==
  [][\A j \in JobIds : \A u \in Users :
        (cancel_import_job(j, u) /\ jobs[j].status # "pending") =>
          /\ ret' = [op |-> "cancel", value |-> FALSE]
          /\ jobs'[j] = jobs[j]]_vars

\* a refused cancel when every job there can be is processing or has ended
C11_Witness ==
  /\ ret = [op |-> "cancel", value |-> FALSE]
  /\ Len(jobs) = MaxJobs
  /\ \E j \in JobIds : jobs[j].status = "processing"
  /\ \E j \in JobIds : jobs[j].status = "completed"
  /\ \A j \in JobIds : jobs[j].status # "pending"

\* the counters of a job record
Counters(job) == <<job.processed_rows, job.successful_rows, job.failed_rows>>

\* C12: every snapshot a run persists has each of processed_rows,
\* successful_rows and failed_rows at least as large as in the snapshot
\* before it, and at most total_rows.
C12_CountersMonotone ==
  [][\A j \in JobIds : \A i \in 1..3 :
        /\ Counters(jobs'[j])[i] >= Counters(jobs[j])[i]
        /\ Counters(jobs'[j])[i] <= jobs'[j].total_rows]_vars

\* the snapshot written by the step worker w takes, if it writes one
Snapshot(w) == jobs'[worker[w].job_id]

\* log holds the first entries of errors, up to the cap, in their order
FirstFailedRows(log, errors) ==
  /\ Len(log) = Min({Len(errors), ErrorLogCap})
  /\ \A i \in 1..Len(log) : log[i] = errors[i]
  /\ \A i \in 1..(Len(log) - 1) : log[i].row < log[i + 1].row

\* C13: in every state the row loop persists (every tenth row and the final
\* one) the error_log is the first failed rows in row order, at most 100 of
\* them, and failed_rows is the number of all failed rows.
C13_ErrorLogCapped ==
  [][\A w \in Workers :
        /\ (StepAt(w, "row_end") /\ jobs' # jobs) =>
              /\ FirstFailedRows(Snapshot(w).error_log,
                                 RowCounted(worker[w]).errors)
              /\ Snapshot(w).failed_rows = Len(RowCounted(worker[w]).errors)
        /\ StepAt(w, "final") =>
              /\ FirstFailedRows(Snapshot(w).error_log, worker[w].errors)
              /\ Snapshot(w).failed_rows = Len(worker[w].errors)]_vars

\* C14: completed_at is written once, at the first transition to completed,
\* partial or failed; from then on neither it nor the counters change,
\* whatever operation follows.
C14_CompletedOnceCountersFrozen ==
  [][\A j \in JobIds :
        /\ (jobs[j].status \notin Terminal /\ jobs'[j].status \in Terminal)
              => jobs'[j].completed_at # NULL
        /\ jobs[j].completed_at # NULL =>
              /\ jobs'[j].completed_at = jobs[j].completed_at
              /\ Counters(jobs'[j]) = Counters(jobs[j])]_vars

\* C15: started_at is written when the job first enters processing and keeps
\* that value through progress snapshots and further entries to processing;
\* it is null exactly as long as the job has never been processing.
C15_StartedAtOnce ==
  [][/\ \A j \in JobIds :
          /\ jobs[j].started_at # NULL =>
                jobs'[j].started_at = jobs[j].started_at
          /\ (jobs[j].started_at = NULL /\ jobs'[j].started_at # NULL) =>
                jobs[j].status # "processing" /\ jobs'[j].status = "processing"
          /\ jobs'[j].status = "processing" => jobs'[j].started_at # NULL
     /\ \A j \in (1..Len(jobs')) \ JobIds :
          jobs'[j].started_at = NULL /\ jobs'[j].status = "pending"]_vars

\* a job that ended, was run again and is at a progress snapshot of that run
C15_Witness ==
  \E j \in JobIds :
     /\ jobs[j].status = "processing"
     /\ jobs[j].processed_rows >= ProgressEvery
     /\ jobs[j].completed_at # NULL
     /\ jobs[j].started_at # NULL
     /\ jobs[j].started_at < jobs[j].completed_at

\* C16: when parse_csv raises or the source of the job has no parser, the
\* run goes to no row, creates no Media and no consumption record, and ends
\* failed with an error_log of the one entry that carries the exception text.
C16_FatalParse ==
  [][\A w \in Workers :
        /\ StepAt(w, "parse") =>
              /\ worker'[w].pc \in {"row", "fatal"}
              /\ worker'[w].pc = "row" =>
                    worker[w].source = "netflix_csv" /\ worker'[w].n >= 1
              /\ worker'[w].pc = "fatal" =>
                    worker'[w].exc # "" /\ worker'[w].tx = EmptyTx
              /\ media' = media /\ user_media' = user_media
        /\ StepAt(w, "fatal") =>
              /\ worker[w].idx = 0 /\ worker[w].tx = EmptyTx
              /\ media' = media /\ user_media' = user_media
              /\ worker'[w].pc = "idle"
              /\ Snapshot(w).status = "failed"
              /\ Snapshot(w).error_log = <<[error |-> worker[w].exc]>>]_vars

\* a run of a file without data rows has ended, the tables are empty
C16_Witness ==
  /\ media = {} /\ user_media = {}
  /\ \E j \in JobIds :
        /\ jobs[j].status = "failed"
        /\ jobs[j].source = "netflix_csv"
        /\ jobs[j].started_at # NULL
        /\ jobs[j].error_log = <<[error |-> "No data rows found in CSV"]>>

\* C17: with one worker, hence no two runs or requests overlapping, no two
\* Media rows carry titles that are equal ignoring case, whatever rows and
\* manual imports were processed.
C17_OneMediaPerTitle ==
  \A m1, m2 \in media : lower(m1.title) = lower(m2.title) => m1.id = m2.id

\* a Media created by a manual import and found by a row of a file, and a
\* Media created by a row and found by a manual import
C17_Witness ==
  /\ Cardinality(media) = 2
  /\ \E m \in media, r \in user_media :
        /\ m.title = <<"arcane">>
        /\ r.media_id = m.id /\ r.imported_from = "netflix_csv"
  /\ \E m \in media, r \in user_media :
        /\ m.title = <<"INCEPTION">>
        /\ r.media_id = m.id /\ r.imported_from = "manual"

\* two Media rows of one title
DuplicateMedia ==
  \E m1, m2 \in media :
     m1.id # m2.id /\ lower(m1.title) = lower(m2.title)

\* C18: with two workers a lookup that finds no committed Media creates one
\* although the other worker holds an uncommitted Media of that title, the
\* commit stores it beside the other one, and no step removes or renames a
\* Media row: the catalog with two rows of one title is reached and stays.
C18_MediaRaceNotPrevented ==
  [][/\ \A w \in Workers :
          /\ (StepAt(w, "row") /\ worker'[w].pc = "probe"
                /\ MediaByTitle(media,
                     parse_netflix_title(worker'[w].row.Title).main_title)
                   = {}) =>
                worker'[w].tx.media_ins # {}
          /\ (StepAt(w, "row_end") /\ worker[w].exc = "") =>
                worker[w].tx.media_ins \subseteq media'
     /\ \A m \in media :
          \E n \in media' : n.id = m.id /\ n.title = m.title]_vars

\* both runs have ended and the catalog holds two Media rows of one title
C18_Witness ==
  /\ DuplicateMedia
  /\ \A w \in Workers : worker[w].pc = "idle"
  /\ Len(jobs) = 2
  /\ \A j \in JobIds : jobs[j].status = "completed"

\* the episode a consumption record stands for: user, title of its Media
\* ignoring case, season, episode title
EpisodeOf(r) ==
  <<r.user_id, lower((CHOOSE m \in media : m.id = r.media_id).title),
    r.season_number, r.episode_title>>

\* every job there is has been run once
EachJobRunOnce ==
  /\ Len(jobs) = 2 /\ runs = 2
  /\ \A j \in JobIds : jobs[j].started_at # NULL

\* C19: when two jobs of one user are run, each once and in any
\* interleaving of the two workers, no two consumption records stand for
\* the same episode and no job logs a row as failed.
C19_ConcurrentSameIdentity ==
  EachJobRunOnce =>
    /\ \A r1, r2 \in user_media : EpisodeOf(r1) = EpisodeOf(r2) => r1.id = r2.id
    /\ \A j \in JobIds : \A i \in 1..Len(jobs[j].error_log) :
          "row" \notin DOMAIN jobs[j].error_log[i]

\* C20: no two workers are in the row loop of the same job.
C20_OneWorkerPerJob ==
  \A w1, w2 \in Workers :
     (/\ worker[w1].pc \in {"row", "probe", "row_end", "final"}
      /\ worker[w2].pc \in {"row", "probe", "row_end", "final"}
      /\ worker[w1].job_id = worker[w2].job_id) => w1 = w2

\* the committed Media row a consumption record points to
MediaOf(r) == CHOOSE m \in media : m.id = r.media_id

\* C21: whatever files and manual imports were processed, no user has two
\* consumption records on the same Media of type movie.
C21_OneRecordPerMovie ==
  \A r1, r2 \in user_media :
     (/\ r1.user_id = r2.user_id
      /\ r1.media_id = r2.media_id
      /\ MediaOf(r1).type = "movie") => r1.id = r2.id

\* the row worker w picks up has a title and a date that process_row accepts
RowAccepted(row) ==
  /\ row.Title # <<>>
  /\ row.Date = EmptyDate \/ ~parse_date_raises(row.Date)

C23_FoundMediaMerged ==
  [][/\ \A w \in Workers :
          LET parsed == parse_netflix_title(worker'[w].row.Title)
              found  == MediaByTitle(media, parsed.main_title)
          IN  /\ (StepAt(w, "row") /\ worker'[w].pc = "probe" /\ found # {}) =>
                    /\ worker'[w].tx.media_ins = {}
                    /\ \E m \in found :
                          worker'[w].tx.media_upd =
                            {[m EXCEPT
                                !.netflix_imports = Append(@, parsed.metadata),
                                !.type = IF m.type \in {"", "unknown"}
                                         THEN parsed.type ELSE m.type]}
              /\ (StepAt(w, "row_end") /\ worker[w].exc = "") =>
                    worker[w].tx.media_upd \subseteq media'
     /\ \A m \in media : \A n \in media' :
          (n.id = m.id /\ m.type \notin {"", "unknown"}) => n.type = m.type]_vars

\* a Media entered by hand without a type took the type of the row that
\* found it, one entered as tv_series kept it when a film row found it
C23_Witness ==
  /\ \E m \in media :
        /\ m.title = <<"arcane">> /\ m.type = "tv_series"
        /\ Len(m.netflix_imports) = 1
  /\ \E m \in media :
        /\ m.title = <<"Inception">> /\ m.type = "tv_series"
        /\ Len(m.netflix_imports) = 1
        /\ m.netflix_imports[1] = [full_title |-> <<"INCEPTION">>]

\* C24: a row with a title and a date that no format parses fails as a row:
\* it reaches neither the resolver nor the probe, it is counted as failed
\* and logged with its index and its data, the tables stay as they are and
\* the loop goes on; the final status follows from the counts.
C24_BadDateFailsRowOnly ==
  [][\A w \in Workers :
        /\ (/\ StepAt(w, "row") /\ worker'[w].row.Title # <<>>
            /\ worker'[w].row.Date = DateBad) =>
               /\ worker'[w].pc = "row_end"
               /\ worker'[w].exc = "Unable to parse date"
               /\ worker'[w].tx = EmptyTx
        /\ (/\ StepAt(w, "row_end") /\ worker[w].row.Title # <<>>
            /\ worker[w].row.Date = DateBad) =>
               /\ media' = media /\ user_media' = user_media
               /\ worker'[w].failed = worker[w].failed + 1
               /\ worker'[w].successful = worker[w].successful
               /\ worker'[w].errors =
                    Append(worker[w].errors,
                           [row |-> worker[w].idx,
                            error |-> "Unable to parse date",
                            data |-> worker[w].row])
               /\ worker'[w].pc =
                    IF worker[w].idx < worker[w].n THEN "row" ELSE "final"
        /\ StepAt(w, "final") =>
               Snapshot(w).status =
                 IF worker[w].failed = 0 THEN "completed"
                 ELSE IF worker[w].successful = 0 THEN "failed"
                 ELSE "partial"]_vars

\* a job whose first row had an unparseable date and whose second row was
\* imported
C24_Witness ==
  \E j \in JobIds :
     /\ jobs[j].status = "partial"
     /\ jobs[j].processed_rows = 2
     /\ jobs[j].successful_rows = 1
     /\ Len(jobs[j].error_log) = 1
     /\ jobs[j].error_log[1].row = 1
     /\ jobs[j].error_log[1].error = "Unable to parse date"
     /\ user_media # {}

\* the calendar has day d of month m in year y
OnCalendar(y, m, d) == m \in 1..12 /\ d \in 1..DaysIn(m, y)

\* the reading the order of the formats gives a date string of three
\* fields: year first when the first field has four digits, else month
\* first when that is a date of the calendar, else day first
ReadMonthFirst(date_str) ==
  LET a == date_str.f[1]
      b == date_str.f[2]
      c == date_str.f[3]
      y == YearOf(c, c.n)
  IN  IF a.n = 4 THEN [y |-> a.v, m |-> b.v, d |-> c.v]
      ELSE IF OnCalendar(y, a.v, b.v) THEN [y |-> y, m |-> a.v, d |-> b.v]
      ELSE [y |-> y, m |-> b.v, d |-> a.v]

\* C25: the date of a record is the reading of the first format that
\* accepts the row's date string: a string that is a date month first and
\* day first is read month first, and day first is used only when month
\* first is no date of the calendar; the date stored is one of the calendar.
C25_FirstFormatWins ==
  \A r \in user_media :
     r.raw_import_data.date # EmptyDate =>
        /\ r.consumed_at = ReadMonthFirst(r.raw_import_data.date)
        /\ OnCalendar(r.consumed_at.y, r.consumed_at.m, r.consumed_at.d)

\* 3/4/25 was imported and stored as the 4th of March, and not as the 3rd of
\* April
C25_Witness ==
  \E r \in user_media :
     /\ r.raw_import_data.date =
          [sep |-> "/", f |-> <<Field(3, 1), Field(4, 1), Field(25, 2)>>]
     /\ r.consumed_at = [y |-> 2025, m |-> 3, d |-> 4]

\* the Media and the record the resolver and the probe have put into the
\* transaction of worker w
Created(w) == worker'[w].tx.media_ins

\* C26: the decomposition of a title never raises and its type follows from
\* the number of segments between colons: one segment is a film whose title
\* is the trimmed input; three or more are an episode of a series whose
\* title is the trimmed first segment, and the record keeps the segments
\* after the second, joined with colons again and trimmed, as episode_title.
C26_TypeBySegments ==
  [][\A w \in Workers :
        LET title == worker'[w].row.Title
            parts == split(title, ":")
            rest  == strip(join(SubSeq(parts, 3, Len(parts)), ":"))
        IN  /\ (StepAt(w, "row") /\ title # <<>>) =>
                  /\ worker'[w].pc = "probe"
                  /\ worker'[w].exc = ""
                  /\ Len(parts) = 1 =>
                        \A m \in Created(w) :
                           m.title = strip(title) /\ m.type = "movie"
                  /\ Len(parts) >= 3 =>
                        \A m \in Created(w) :
                           m.title = strip(parts[1]) /\ m.type = "tv_series"
                  /\ media = {} => Created(w) # {}
            /\ (StepAt(w, "probe") /\ Len(parts) = 1) =>
                  \A r \in worker'[w].tx.um_ins :
                     /\ r.episode_title = None
                     /\ r.season_number = NULL /\ r.episode_number = NULL
            /\ (StepAt(w, "probe") /\ Len(parts) >= 3) =>
                  \A r \in worker'[w].tx.um_ins : r.episode_title = rest]_vars

\* 'Ozark: Season 4: Part 2: Episode 7' was imported: a series Ozark, and a
\* record of season 4 with the episode title 'Part 2: Episode 7'
C26_Witness ==
  /\ \E m \in media : m.title = <<"Ozark">> /\ m.type = "tv_series"
  /\ \E r \in user_media :
        /\ r.season_number = 4
        /\ r.episode_number = 2
        /\ r.episode_title = <<"Part", "2", ":", " ", "Episode", "7">>

\* C27: the record of a row whose title has two segments, the second a season
\* keyword followed by a number, carries that number as season_number and no
\* episode number, and the Media the row creates is a series named by the
\* first segment.
C27_SeasonOfTwoSegments ==
  /\ \A r \in user_media :
        LET parts == split(r.raw_import_data.original_title, ":")
        IN  (/\ Len(parts) = 2
             /\ KeywordNumberAt(strip(parts[2]), {"season"}) # {}) =>
               /\ r.season_number =
                    NumVal[strip(parts[2])[Min(KeywordNumberAt(strip(parts[2]),
                                                               {"season"})) + 1]]
               /\ r.episode_number = NULL
  /\ \A w \in Workers : \A m \in worker[w].tx.media_ins :
        LET parts == split(worker[w].row.Title, ":")
        IN  (/\ Len(parts) = 2
             /\ KeywordNumberAt(strip(parts[2]), {"season"}) # {}) =>
               m.title = strip(parts[1]) /\ m.type = "tv_series"

\* C28: every entry of a stored error_log has the three fields row, error
\* and data: the index of the failed row from 1, the text of the error and
\* the row as it was read.
C28_ErrorEntryShape ==
  \A j \in JobIds : \A i \in 1..Len(jobs[j].error_log) :
     LET entry == jobs[j].error_log[i]
     IN  /\ DOMAIN entry = {"row", "error", "data"}
         /\ entry.row \in 1..jobs[j].total_rows
         /\ entry.data \in cfg.pool

\* the requests on the key of request i that were allowed within the window
\* that ends with request i
AllowedInWindow(i) ==
  LET r == limiter.returned[i]
  IN  {j \in 1..Len(limiter.returned) :
         /\ limiter.returned[j].allowed
         /\ limiter.returned[j].key = r.key
         /\ limiter.returned[j].now > r.now - window_seconds
         /\ limiter.returned[j].now <= r.now}

\* the requests on the key of request i that were allowed and whose time is
\* later than the start of the window of request i
Live(i) ==
  LET r == limiter.returned[i]
  IN  {j \in 1..Len(limiter.returned) :
         /\ limiter.returned[j].allowed
         /\ limiter.returned[j].key = r.key
         /\ limiter.returned[j].now > r.now - window_seconds}

\* C29: whatever the order the callers' steps are taken in, no key is
\* allowed more than max_requests requests within one window; an allowed
\* request reports how many live requests were allowed up to it, itself
\* included; a request is denied only when max_requests live ones were
\* allowed before it, so that a denied request takes nothing from the quota
\* and requests are allowed again when the window has passed, and it is
\* denied with a positive retry_after; the set of a key holds the allowed
\* requests only when no call is in progress.
C29_AtMostMaxPerWindow ==
  /\ \A i \in 1..Len(limiter.returned) :
        LET r == limiter.returned[i]
        IN  IF r.allowed
            THEN /\ Cardinality(AllowedInWindow(i)) <= max_requests
                 /\ r.requests_made = Cardinality(Live(i) \cap 1..i)
                 /\ r.retry_after = 0
            ELSE /\ Cardinality(Live(i) \cap 1..i) >= max_requests
                 /\ r.retry_after > 0
  /\ \A k \in Keys :
        (\A c \in Callers : limiter.call[c].pc = "idle") =>
           limiter.zset[k] \subseteq
             {limiter.returned[j].now : j \in {i \in 1..Len(limiter.returned) :
                 limiter.returned[i].allowed /\ limiter.returned[i].key = k}}
\* C30: a result search_tv returns is the answer to its own query and year
\* (or the empty list), however the arguments were passed, and a result that
\* came from the cache was put there by a call with the same query and year.
C30_CacheKeyedByQueryAndYear ==
  \A i \in 1..Len(cache.returned) :
     LET r == cache.returned[i]
     IN  /\ r.result \in {<<>>, Results(r.query, r.year)}
         /\ r.from_cache =>
               \E j \in 1..(i - 1) :
                  /\ cache.returned[j].query = r.query
                  /\ cache.returned[j].year = r.year
                  /\ ~cache.returned[j].from_cache

C32_SnapshotEveryTenRows ==
  [][\A w \in Workers :
        /\ StepAt(w, "row_end") =>
              IF worker[w].idx % 10 = 0
              THEN /\ Snapshot(w).status = "processing"
                   /\ Snapshot(w).processed_rows = worker[w].idx
                   /\ Snapshot(w).successful_rows + Snapshot(w).failed_rows
                        = worker[w].idx
                   /\ Snapshot(w).successful_rows = worker'[w].successful
                   /\ Snapshot(w).failed_rows = worker'[w].failed
              ELSE jobs' = jobs
        /\ worker'[w].pc \in {"row", "probe", "row_end"} =>
              /\ jobs'[worker'[w].job_id].status = "processing"
              /\ jobs'[worker'[w].job_id].processed_rows
                   = ((worker'[w].idx - 1) \div 10) * 10]_vars

\* a job read while its 14th row is in work: ten rows processed
C32_Witness ==
  \E w \in Workers :
     /\ worker[w].pc = "probe"
     /\ worker[w].idx = 14
     /\ jobs[worker[w].job_id].status = "processing"
     /\ jobs[worker[w].job_id].processed_rows = 10
     /\ jobs[worker[w].job_id].successful_rows = 1
     /\ jobs[worker[w].job_id].failed_rows = 9

\* C33: no step changes or removes a stored record, and a row of a series
\* whose episode the user has already is skipped, whatever its date and
\* its spelling: it adds no record, it is no failure, and the records stay
\* as they were first written.
C33_RecordNeverUpdated ==
  [][/\ \A r \in user_media : r \in user_media'
     /\ \A w \in Workers :
           /\ (/\ StepAt(w, "probe")
               /\ ParsedRow(w).type = "tv_series"
               /\ ParsedRow(w).episode_title \notin {None, <<>>}
               /\ EpisodeRecords(user_media, w) # {}) =>
                  /\ worker'[w].exc = ""
                  /\ worker'[w].tx.um_ins = {}
           /\ (/\ StepAt(w, "row_end")
               /\ ParsedRow(w).type = "tv_series"
               /\ worker[w].row.Title # <<>>
               /\ EpisodeRecords(user_media, w) # {}) =>
                  /\ user_media' = user_media
                  /\ worker'[w].failed = worker[w].failed]_vars

\* the episode is stored with the date 6/26/25, and the row that gives it in
\* capitals with the date 2024-01-15 has been counted as a success
C33_Witness ==
  \E w \in Workers :
     /\ worker[w].row = Row(<<"ARCANE", ":", " ", "Staffel", "2", ":", " ",
                             "Episode", "3">>, DateISO)
     /\ worker[w].pc = "final"
     /\ worker[w].successful = 1 /\ worker[w].failed = 0
     /\ Cardinality(user_media) = 1
     /\ \E r \in user_media :
           /\ r.consumed_at = [y |-> 2025, m |-> 6, d |-> 26]
           /\ r.raw_import_data.original_title[1] = "Arcane"

\* C34: get_import_job and cancel_import_job called with the job of another
\* user, or with an id no job carries, change no job; the first returns no
\* job and the second returns false.
C34_OnlyTheOwner ==
  [][\A job_id \in 1..MaxJobs, u \in Users :
        (job_id \notin JobIds \/ jobs[job_id].user_id # u) =>
           /\ get_import_job(job_id, u) => ret'.job = NoJob /\ jobs' = jobs
           /\ cancel_import_job(job_id, u) =>
                 /\ ret' = [op |-> "cancel", value |-> FALSE]
                 /\ jobs' = jobs]_vars

\* the query of a user for the running job of the other user has returned
\* no job
C34_Witness ==
  /\ ret.op = "get"
  /\ ret.job_id \in JobIds
  /\ jobs[ret.job_id].user_id # ret.user_id
  /\ jobs[ret.job_id].status = "processing"
  /\ ret.job = NoJob

\* C35: in every stored state of a job (new, marked processing, progress
\* snapshot, terminal, failed by the top-level handler, cancelled)
\* processed_rows is the sum of successful_rows and failed_rows.
C35_ProcessedIsSum ==
  \A j \in JobIds :
     jobs[j].processed_rows = jobs[j].successful_rows + jobs[j].failed_rows

\* the snapshot after the 20th row: 2 rows stored and 18 failed
C35_Witness ==
  \E j \in JobIds :
     /\ jobs[j].status = "processing"
     /\ jobs[j].processed_rows = 20
     /\ jobs[j].successful_rows = 2
     /\ jobs[j].failed_rows = 18

\* job j is as cancel_import_job left it
CancelledByUser(j) ==
  /\ jobs[j].status = "failed"
  /\ jobs[j].error_log = <<[error |-> "Cancelled by user"]>>
  /\ jobs[j].processed_rows = 0

\* C36: a job that cancel_import_job has cancelled stays as it is, no
\* worker is ever in the row loop on its behalf, and no consumption record
\* is stored for it.
C36_CancelledJobIsNeverRun ==
  [][\A j \in JobIds :
        CancelledByUser(j) =>
           /\ jobs'[j] = jobs[j]
           /\ \A w \in Workers :
                 worker'[w].job_id = j =>
                    /\ worker'[w].pc \notin {"row", "probe", "row_end"}
                    /\ user_media' = user_media]_vars

\* the row of worker w decomposes to a film, or to a series with no episode
RowWithoutEpisode(w) ==
  \/ ParsedRow(w).type = "movie"
  \/ /\ ParsedRow(w).type = "tv_series"
     /\ ParsedRow(w).episode_title \in {None, <<>>}
     /\ ParsedRow(w).episode_number = NULL

\* C37: a row without an episode, of a Media on which the user has one or
\* more records, stores no record and is no failed row.
C37_RowWithoutEpisodeIsSkipped ==
  [][\A w \in Workers :
        (/\ StepAt(w, "probe")
         /\ RowWithoutEpisode(w)
         /\ \E r \in user_media : /\ r.user_id = worker[w].user_id
                                  /\ r.media_id = worker[w].media_id) =>
           /\ worker'[w].tx.um_ins = {}
           /\ worker'[w].exc = ""]_vars

\* the Media with primary key id among rows
MediaById(rows, id) == CHOOSE m \in rows : m.id = id

\* C38: the commit of a row that found its Media leaves that Media with one
\* provenance entry more than it had, whether the row stored a record or was
\* skipped; a Media starts with no entry; a failing row changes no Media.
C38_OneEntryPerCommittedRow ==
  [][\A w \in Workers :
        StepAt(w, "row_end") =>
           IF worker[w].exc = ""
           THEN /\ \A u \in worker[w].tx.media_upd :
                      Len(MediaById(media', u.id).netflix_imports)
                         = Len(MediaById(media, u.id).netflix_imports) + 1
                /\ \A m \in media' :
                      m.id \notin Ids(media) => m.netflix_imports = <<>>
                /\ \A m \in media :
                      m.id \notin Ids(worker[w].tx.media_upd) => m \in media'
           ELSE media' = media]_vars

\* C39: the lookup of a Media goes by the title alone. A row whose title,
\* compared without case, is that of a stored Media resolves to that Media
\* and creates none, whatever the types of the row and of the Media; no
\* title is stored twice; the type of a Media never changes; and a record
\* stored for the row carries the season and the episode the row itself
\* decomposes to.
C39_LookupIgnoresType ==
  [][/\ \A m1, m2 \in media' :
           lower(m1.title) = lower(m2.title) => m1 = m2
     /\ \A m \in media : \E n \in media' : n.id = m.id /\ n.type = m.type
     /\ \A w \in Workers :
           /\ (/\ StepAt(w, "row")
               /\ worker'[w].pc = "probe"
               /\ MediaByTitle(media, parse_netflix_title(worker'[w].row.Title).main_title) # {}) =>
                  /\ worker'[w].tx.media_ins = {}
                  /\ worker'[w].media_id \in
                        Ids(MediaByTitle(media, parse_netflix_title(worker'[w].row.Title).main_title))
           /\ StepAt(w, "probe") =>
                 \A um \in worker'[w].tx.um_ins :
                    /\ um.media_id = worker[w].media_id
                    /\ um.season_number = ParsedRow(w).season_number
                    /\ um.episode_number = ParsedRow(w).episode_number
                    /\ um.episode_title = ParsedRow(w).episode_title]_vars

\* the Media first seen as the film "arcane" is still a film and carries
\* the record of the film row and the record of an episode of season 2
C39_Witness ==
  /\ Cardinality(media) = 1
  /\ \E m \in media :
        /\ m.type = "movie"
        /\ m.title = <<"arcane">>
        /\ \E r1, r2 \in user_media :
              /\ r1.media_id = m.id /\ r1.season_number = NULL
              /\ r2.media_id = m.id /\ r2.season_number = 2
              /\ r2.episode_number = 3

====
